---------------------------- MODULE Spec2Model ----------------------------
(***************************************************************************)
(* A model of the CLIMADA backend API (src/climada_backend.py): six HTTP   *)
(* handlers over one module-level response cache.  The CLIMADA library is  *)
(* the environment: every call into it either raises or returns a value    *)
(* drawn from a bounded set.  Requests are handled one at a time, so each  *)
(* handler is one atomic action.                                           *)
(*                                                                         *)
(* Text is modelled as a sequence of one-character strings, so that        *)
(* formatting and parsing are computed character by character.  A float    *)
(* is <<v>> for the value v and <<>> for NaN; float(x) of a float is x.    *)
(***************************************************************************)
EXTENDS Integers, Sequences, FiniteSets, TLC

VARIABLES
    cache,      \* the module-level dict: cache_key -> stored FeatureCollection
    response,   \* the HTTP response of the request handled last
    lastReq,    \* history: what the request handled last was and did
    loads,      \* history: parameter triple -> successful loader calls so far
    succeeded,  \* history: parameter triple -> body of its first successful response
    probe       \* the input and result of a pure function under test

vars == <<cache, response, lastReq, loads, succeeded, probe>>

----------------------------------------------------------------------------
(* Bounds of the model. *)

MaxPoints == 4      \* points of a track drawn for the conversion
MaxTracks == 3      \* tracks of a list drawn for the conversion
MaxWind == 150      \* largest wind speed (knots) drawn for the category lookup
MaxSynth == 52      \* largest number of synthetic tracks the library returns
MaxBasinLen == 2    \* longest basin text drawn for the cache key

----------------------------------------------------------------------------
(* Values. *)

NaN == <<>>
Num(v) == <<v>>
IsNaN(x) == x = NaN
Val(x) == x[1]

EmptyMap == [x \in {} |-> {}]

Get(d, k, default) == IF k \in DOMAIN d THEN d[k] ELSE default

MaxOf(S) == CHOOSE m \in S : \A x \in S : x <= m

MinOf(a, b) == IF a <= b THEN a ELSE b

HasAttr(track, a) == a \in track.attrs

----------------------------------------------------------------------------
(* The Saffir-Simpson lookup of get_historical_tracks. *)

SaffirSimpsonOffByOne(wind_kt) ==
    IF wind_kt > 137 THEN 5
    ELSE IF wind_kt > 113 THEN 4
    ELSE IF wind_kt > 96 THEN 3
    ELSE IF wind_kt > 83 THEN 2
    ELSE IF wind_kt > 64 THEN 1
    ELSE 0

SaffirSimpson(wind_kt) ==
    IF wind_kt >= 137 THEN 5
    ELSE IF wind_kt >= 113 THEN 4
    ELSE IF wind_kt >= 96 THEN 3
    ELSE IF wind_kt >= 83 THEN 2
    ELSE IF wind_kt >= 64 THEN 1
    ELSE 0

PointCategory(track, i) ==
    IF HasAttr(track, "max_sustained_wind") /\ ~IsNaN(track.max_sustained_wind[i])
    THEN SaffirSimpson(Val(track.max_sustained_wind[i]))
    ELSE 0

----------------------------------------------------------------------------
(* The conversion of library tracks to GeoJSON features. *)

ValidPointLatOnly(track, i) == ~IsNaN(track.lat[i])

ValidPoint(track, i) == ~IsNaN(track.lat[i]) /\ ~IsNaN(track.lon[i])

\* The inner loop of get_historical_tracks, from point i on.
RECURSIVE PointLoop(_, _, _, _)
PointLoop(track, i, coordinates, categories) ==
    IF i > Len(track.lat) THEN [coordinates |-> coordinates, categories |-> categories]
    ELSE IF ValidPoint(track, i)
         THEN PointLoop(track, i + 1,
                        Append(coordinates, <<track.lon[i], track.lat[i]>>),
                        Append(categories, PointCategory(track, i)))
         ELSE PointLoop(track, i + 1, coordinates, categories)

\* np.nanmax: the largest non-NaN value, NaN when there is none.
NanMax(a) ==
    LET vals == {Val(a[i]) : i \in {j \in 1..Len(a) : ~IsNaN(a[j])}}
    IN  IF vals = {} THEN NaN ELSE Num(MaxOf(vals))

TrackCategoryAllPoints(track, categories) ==
    LET all == {PointCategory(track, i) : i \in 1..Len(track.lat)}
    IN  IF all = {} THEN 0 ELSE MaxOf(all)

TrackCategory(track, categories) ==
    IF categories # <<>> THEN MaxOf({categories[k] : k \in 1..Len(categories)}) ELSE 0

HistoricalFeature(track, basin, year_min, coordinates, categories) ==
    [type |-> "Feature",
     properties |->
        [name |-> IF HasAttr(track, "name") THEN <<track.name>>
                  ELSE <<"Storm_", track.sid>>,
         sid |-> track.sid,
         season |-> IF HasAttr(track, "season") THEN track.season ELSE year_min,
         basin |-> basin,
         category |-> TrackCategory(track, categories),
         max_wind |-> IF HasAttr(track, "max_sustained_wind")
                      THEN NanMax(track.max_sustained_wind) ELSE Num(0)],
     geometry |-> [type |-> "LineString", coordinates |-> coordinates]]

\* The outer loop of get_historical_tracks, from track t on.
RECURSIVE HistoricalFeatures(_, _, _, _, _)
HistoricalFeatures(data, t, basin, year_min, features) ==
    IF t > Len(data) THEN features
    ELSE LET track == data[t]
             pts == PointLoop(track, 1, <<>>, <<>>)
         IN  IF Len(track.lat) < 3
             THEN HistoricalFeatures(data, t + 1, basin, year_min, features)
             ELSE IF Len(pts.coordinates) >= 3
                  THEN HistoricalFeatures(data, t + 1, basin, year_min,
                          Append(features,
                                 HistoricalFeature(track, basin, year_min,
                                                   pts.coordinates, pts.categories)))
                  ELSE HistoricalFeatures(data, t + 1, basin, year_min, features)

HistoricalCollection(data, basin, year_min, year_max) ==
    LET features == HistoricalFeatures(data, 1, basin, year_min, <<>>)
    IN  [type |-> "FeatureCollection",
         features |-> features,
         properties |-> [basin |-> basin,
                         year_range |-> <<year_min, year_max>>,
                         count |-> Len(features)]]

----------------------------------------------------------------------------
(* generate_synthetic_tracks: scenario factors and the sampled conversion. *)

SampleCap == 50

\* The factors the handler computes for a scenario other than 'historical'.
ClimateFactors(scenario) ==
    IF scenario = "rcp26" THEN [freq_change |-> <<11, 10>>, int_change |-> <<105, 100>>]
    ELSE IF scenario = "rcp45" THEN [freq_change |-> <<12, 10>>, int_change |-> <<11, 10>>]
    ELSE IF scenario = "rcp85" THEN [freq_change |-> <<14, 10>>, int_change |-> <<115, 100>>]
    ELSE [freq_change |-> <<10, 10>>, int_change |-> <<10, 10>>]

\* The inner loop of generate_synthetic_tracks, from point j on.
RECURSIVE SynthPointLoop(_, _, _)
SynthPointLoop(track, j, coordinates) ==
    IF j > Len(track.lat) THEN coordinates
    ELSE IF ValidPoint(track, j)
         THEN SynthPointLoop(track, j + 1,
                             Append(coordinates, <<track.lon[j], track.lat[j]>>))
         ELSE SynthPointLoop(track, j + 1, coordinates)

SampleSizeUncapped(data) == Len(data)

SampleSize(data) == MinOf(SampleCap, Len(data))

\* f"Synthetic_{i}": i is the 0-based index enumerate() gives the track.
SyntheticName(i) == <<"Synthetic_", i>>

\* The loop over enumerate(data[:sample_size]); i is the 0-based index.
RECURSIVE SyntheticFeatures(_, _, _, _, _)
SyntheticFeatures(data, sample_size, i, scenario, features) ==
    IF i >= sample_size THEN features
    ELSE LET track == data[i + 1]
             coordinates == SynthPointLoop(track, 1, <<>>)
         IN  IF Len(track.lat) < 3
             THEN SyntheticFeatures(data, sample_size, i + 1, scenario, features)
             ELSE IF Len(coordinates) >= 3
                  THEN SyntheticFeatures(data, sample_size, i + 1, scenario,
                          Append(features,
                                 [type |-> "Feature",
                                  properties |-> [name |-> SyntheticName(i),
                                                  type |-> "synthetic",
                                                  scenario |-> scenario],
                                  geometry |-> [type |-> "LineString",
                                                coordinates |-> coordinates]]))
                  ELSE SyntheticFeatures(data, sample_size, i + 1, scenario, features)

\* The response body built from the library's synthetic tracks.  The factors
\* are computed (and logged) when the scenario is not 'historical'; nothing
\* after that reads them.
SyntheticCollection(data, scenario) ==
    LET factors == IF scenario # "historical" THEN ClimateFactors(scenario) ELSE <<>>
        features == SyntheticFeatures(data, SampleSize(data), 0, scenario, <<>>)
    IN  [type |-> "FeatureCollection",
         features |-> features,
         properties |-> [scenario |-> scenario,
                         total_tracks |-> Len(data),
                         displayed_tracks |-> Len(features)]]

----------------------------------------------------------------------------
(* Text: formatting an int, the cache key, int() and float(). *)

Digits == <<"0", "1", "2", "3", "4", "5", "6", "7", "8", "9">>

IsDigit(c) == \E d \in 1..10 : Digits[d] = c

DigitVal(c) == (CHOOSE d \in 1..10 : Digits[d] = c) - 1

\* The decimal digits of a natural number, as f"{n}" writes them.
RECURSIVE NatStr(_)
NatStr(n) == IF n < 10 THEN <<Digits[n + 1]>>
             ELSE Append(NatStr(n \div 10), Digits[(n % 10) + 1])

IntStr(n) == IF n < 0 THEN <<"-">> \o NatStr(0 - n) ELSE NatStr(n)

CacheKeyNoSeparators(basin, year_min, year_max) ==
    <<"t", "r", "a", "c", "k", "s", "_">> \o basin \o IntStr(year_min) \o IntStr(year_max)

\* f"tracks_{basin}_{year_min}_{year_max}"
CacheKey(basin, year_min, year_max) ==
    <<"t", "r", "a", "c", "k", "s", "_">> \o basin \o <<"_">> \o IntStr(year_min)
        \o <<"_">> \o IntStr(year_max)

RECURSIVE StripLeft(_)
StripLeft(s) == IF s # <<>> /\ Head(s) = " " THEN StripLeft(Tail(s)) ELSE s

RECURSIVE StripRight(_)
StripRight(s) == IF s # <<>> /\ s[Len(s)] = " "
                 THEN StripRight(SubSeq(s, 1, Len(s) - 1)) ELSE s

\* The value of a text of digits and underscores, read left to right.
RECURSIVE DigitsValue(_, _)
DigitsValue(s, acc) ==
    IF s = <<>> THEN acc
    ELSE IF Head(s) = "_" THEN DigitsValue(Tail(s), acc)
    ELSE DigitsValue(Tail(s), 10 * acc + DigitVal(Head(s)))

\* Python's int(text): surrounding blanks, one optional sign, then digits with
\* single underscores between them.  <<n>> on success, <<>> for a ValueError.
ParseInt(text) ==
    LET s == StripRight(StripLeft(text))
        signed == s # <<>> /\ Head(s) \in {"-", "+"}
        body == IF signed THEN Tail(s) ELSE s
        wellFormed ==
            /\ body # <<>>
            /\ \A k \in 1..Len(body) : IsDigit(body[k]) \/ body[k] = "_"
            /\ IsDigit(body[1]) /\ IsDigit(body[Len(body)])
            /\ \A k \in 1..(Len(body) - 1) : ~(body[k] = "_" /\ body[k + 1] = "_")
    IN  IF ~wellFormed THEN <<>>
        ELSE IF signed /\ Head(s) = "-" THEN <<0 - DigitsValue(body, 0)>>
        ELSE <<DigitsValue(body, 0)>>

\* text.split(sep): the parts of text between the separators.
RECURSIVE Split(_, _, _, _)
Split(text, sep, part, parts) ==
    IF text = <<>> THEN Append(parts, part)
    ELSE IF Head(text) = sep THEN Split(Tail(text), sep, <<>>, Append(parts, part))
    ELSE Split(Tail(text), sep, Append(part, Head(text)), parts)

RECURSIVE Pow10(_)
Pow10(n) == IF n = 0 THEN 1 ELSE 10 * Pow10(n - 1)

\* Python's float(text) on signs, digits and one decimal point: <<v>> on
\* success, with v the value as a pair <<numerator, denominator>> in lowest
\* power-of-ten terms, and <<>> for a ValueError.
ParseFloat(text) ==
    LET s == StripRight(StripLeft(text))
        signed == s # <<>> /\ Head(s) \in {"-", "+"}
        body == IF signed THEN Tail(s) ELSE s
        dots == {k \in 1..Len(body) : body[k] = "."}
        dot == IF dots = {} THEN Len(body) + 1 ELSE CHOOSE k \in dots : TRUE
        whole == SubSeq(body, 1, dot - 1)
        frac == SubSeq(body, dot + 1, Len(body))
        wellFormed ==
            /\ Cardinality(dots) <= 1
            /\ \A k \in 1..Len(whole) : IsDigit(whole[k])
            /\ \A k \in 1..Len(frac) : IsDigit(frac[k])
            /\ Len(whole) + Len(frac) >= 1
        RECURSIVE Reduce(_, _)
        Reduce(n, d) == IF d > 1 /\ n % 10 = 0 THEN Reduce(n \div 10, d \div 10)
                        ELSE <<n, d>>
        magnitude == Reduce(DigitsValue(whole \o frac, 0), Pow10(Len(frac)))
    IN  IF ~wellFormed THEN <<>>
        ELSE IF signed /\ Head(s) = "-" THEN <<<<0 - magnitude[1], magnitude[2]>>>>
        ELSE <<magnitude>>

----------------------------------------------------------------------------
(* Responses. *)

\* Python's None as a value echoed in a response.
None == "None"

\* request.json of a request that carries no JSON object.
NoBody == [nobody |-> TRUE]

\* return jsonify(body)
Success(body) == [status |-> 200, body |-> body]

ServerErrorWithStatus200(e) == [status |-> 200, body |-> [error |-> e]]

\* return jsonify({'error': str(e)}), 500
ServerError(e) == [status |-> 500, body |-> [error |-> e]]

\* What lastReq records of a request: its endpoint, its raw input, the outcome
\* the library was going to give, and the library calls the handler made.
Handled(endpoint, input, outcome, libcalls) ==
    [endpoint |-> endpoint, input |-> input, outcome |-> outcome, libcalls |-> libcalls]

----------------------------------------------------------------------------
(* The tracks the library returns to the service. *)

Track(sid, attrs, lat, lon, wind) ==
    [sid |-> sid, attrs |-> attrs, name |-> "ALEX", season |-> 2012,
     lat |-> lat, lon |-> lon, max_sustained_wind |-> wind]

\* Three valid points; the wind of the last one is missing.
TrackGood == Track(1, {"name", "max_sustained_wind"},
                   <<Num(10), Num(11), Num(12)>>, <<Num(20), Num(21), Num(22)>>,
                   <<Num(60), Num(100), NaN>>)

\* Fewer than three raw points.
TrackShort == Track(2, {"max_sustained_wind"},
                    <<Num(10), Num(11)>>, <<Num(20), Num(21)>>, <<Num(70), Num(70)>>)

\* Four points, the strongest wind at the one without a latitude.
TrackGap == Track(3, {"season", "max_sustained_wind"},
                  <<Num(13), NaN, Num(14), Num(15)>>, <<Num(23), Num(24), Num(25), Num(26)>>,
                  <<Num(70), Num(140), Num(64), NaN>>)

\* Three raw points, two of them valid.
TrackSparse == Track(4, {"name", "season", "max_sustained_wind"},
                     <<Num(16), Num(17), Num(18)>>, <<Num(27), NaN, Num(28)>>,
                     <<Num(90), Num(90), Num(90)>>)

\* Three valid points and no optional attribute.
TrackBare == Track(5, {}, <<Num(19), Num(18), Num(17)>>, <<Num(29), Num(28), Num(27)>>,
                   <<>>)

SampleTracks == {TrackGood, TrackShort, TrackGap, TrackSparse, TrackBare}

LoaderOutputs == {<<TrackShort, TrackGood>>, <<TrackGap, TrackSparse, TrackBare>>}

----------------------------------------------------------------------------
(* GET /api/climada/version *)

Versions == {"4.1.0"}

get_version ==
    \E outcome \in {"raises"} \cup Versions :
        /\ response' = IF outcome = "raises" THEN ServerError("Exception")
                       ELSE Success([climada_version |-> outcome,
                                     status |-> "operational",
                                     modules |-> <<"hazard", "entity", "engine">>])
        /\ lastReq' = Handled("version", <<>>, outcome, <<"climada.__version__">>)
        /\ UNCHANGED <<cache, loads, succeeded, probe>>

----------------------------------------------------------------------------
(* GET /api/climada/historical-tracks *)

NA == <<"N", "A">>
EP == <<"E", "P">>

DefaultYearMin == 2010
DefaultYearMax == 2020

\* The query strings drawn: two spell the default parameters, three fail int().
HistoricalArgs ==
    { EmptyMap,
      [basin |-> NA, year_min |-> <<"2", "0", "1", "0">>,
                     year_max |-> <<"2", "_", "0", "2", "0">>],
      [basin |-> EP],
      [year_min |-> <<"+", "7">>, year_max |-> <<" ", "7">>],
      [year_min |-> <<"x">>],
      [year_max |-> <<>>],
      [basin |-> EP, year_min |-> <<"7", "_">>] }

\* basin, year_min and year_max as the handler reads them; a year is <<>> when
\* int() raises.
HistoricalParams(args) ==
    [basin |-> Get(args, "basin", NA),
     year_min |-> IF "year_min" \in DOMAIN args THEN ParseInt(args["year_min"])
                  ELSE Num(DefaultYearMin),
     year_max |-> IF "year_max" \in DOMAIN args THEN ParseInt(args["year_max"])
                  ELSE Num(DefaultYearMax)]

CacheHitNever(cache_key, c) == FALSE

\* cache_key in cache
CacheHit(cache_key, c) == cache_key \in DOMAIN c

CacheStoreOnly(c, cache_key, value) == [k \in {cache_key} |-> value]

\* cache[cache_key] = value
CacheStore(c, cache_key, value) ==
    [k \in DOMAIN c \cup {cache_key} |-> IF k = cache_key THEN value ELSE c[k]]

\* What a call into the library does: it raises, or returns data.
Raises == [ok |-> FALSE, data |-> <<>>]
Returns(data) == [ok |-> TRUE, data |-> data]

get_historical_tracks ==
    \E args \in HistoricalArgs, outcome \in {Raises} \cup {Returns(d) : d \in LoaderOutputs} :
        LET p == HistoricalParams(args)
        IN  IF p.year_min = <<>> \/ p.year_max = <<>>
            THEN /\ response' = ServerError("ValueError")
                 /\ lastReq' = Handled("historical-tracks", args, outcome, <<>>)
                 /\ UNCHANGED <<cache, loads, succeeded, probe>>
            ELSE LET basin == p.basin
                     year_min == Val(p.year_min)
                     year_max == Val(p.year_max)
                     cache_key == CacheKey(basin, year_min, year_max)
                     triple == <<basin, year_min, year_max>>
                 IN  IF ~CacheHit(cache_key, cache)
                     THEN IF ~outcome.ok
                          THEN /\ response' = ServerError("LibraryError")
                               /\ lastReq' = Handled("historical-tracks", args, outcome,
                                                     <<"from_ibtracs_netcdf">>)
                               /\ UNCHANGED <<cache, loads, succeeded, probe>>
                          ELSE /\ cache' = CacheStore(cache, cache_key,
                                              HistoricalCollection(outcome.data, basin,
                                                                   year_min, year_max))
                               /\ response' = Success(cache'[cache_key])
                               /\ lastReq' = Handled("historical-tracks", args, outcome,
                                                     <<"from_ibtracs_netcdf">>)
                               /\ loads' = [t \in DOMAIN loads \cup {triple} |->
                                               Get(loads, t, 0) + (IF t = triple THEN 1 ELSE 0)]
                               /\ succeeded' = IF triple \in DOMAIN succeeded THEN succeeded
                                               ELSE [t \in DOMAIN succeeded \cup {triple} |->
                                                       IF t = triple THEN response'.body
                                                       ELSE succeeded[t]]
                               /\ UNCHANGED probe
                     ELSE /\ response' = Success(cache[cache_key])
                          /\ lastReq' = Handled("historical-tracks", args, outcome, <<>>)
                          /\ succeeded' = IF triple \in DOMAIN succeeded THEN succeeded
                                          ELSE [t \in DOMAIN succeeded \cup {triple} |->
                                                  IF t = triple THEN response'.body
                                                  ELSE succeeded[t]]
                          /\ UNCHANGED <<cache, loads, probe>>

----------------------------------------------------------------------------
(* POST /api/climada/synthetic-tracks *)

Scenarios == {"historical", "rcp26", "rcp45", "rcp85", "ssp585"}

\* request.json as drawn: NoBody for a request without a JSON body, else the
\* object.  A JSON number n is <<"number", n>>, a JSON string s <<"string", s>>.
SyntheticBodies ==
    { NoBody,
      EmptyMap,
      [scenario |-> "rcp26"],
      [scenario |-> "rcp45", years |-> <<"number", 80>>],
      [scenario |-> "rcp85", basin |-> EP],
      [scenario |-> "ssp585", years |-> <<"number", 200>>],
      [scenario |-> "historical", years |-> <<"string", "many">>] }

SyntheticOutcomes ==
    [loader : {Raises, Returns(<<>>)},
     synth : {Raises} \cup {Returns(d) : d \in LoaderOutputs}]

generate_synthetic_tracks ==
    \E data \in SyntheticBodies, outcome \in SyntheticOutcomes :
        IF data = NoBody
        THEN \* data.get on None, or request.json itself, raises
             /\ response' = ServerError("AttributeError")
             /\ lastReq' = Handled("synthetic-tracks", data, outcome, <<>>)
             /\ UNCHANGED <<cache, loads, succeeded, probe>>
        ELSE LET scenario == Get(data, "scenario", "historical")
                 n_years == Get(data, "years", <<"number", 100>>)
                 basin == Get(data, "basin", NA)
             IN  IF ~outcome.loader.ok
                 THEN /\ response' = ServerError("LibraryError")
                      /\ lastReq' = Handled("synthetic-tracks", data, outcome,
                                            <<"from_ibtracs_netcdf">>)
                      /\ UNCHANGED <<cache, loads, succeeded, probe>>
                 ELSE IF n_years[1] # "number"
                 THEN \* n_years / 40 on a string
                      /\ response' = ServerError("TypeError")
                      /\ lastReq' = Handled("synthetic-tracks", data, outcome,
                                            <<"from_ibtracs_netcdf">>)
                      /\ UNCHANGED <<cache, loads, succeeded, probe>>
                 ELSE IF ~outcome.synth.ok
                 THEN /\ response' = ServerError("LibraryError")
                      /\ lastReq' = Handled("synthetic-tracks", data, outcome,
                                            <<"from_ibtracs_netcdf",
                                              "calc_perturbed_trajectories">>)
                      /\ UNCHANGED <<cache, loads, succeeded, probe>>
                 ELSE /\ response' = Success(SyntheticCollection(outcome.synth.data, scenario))
                      /\ lastReq' = Handled("synthetic-tracks", data, outcome,
                                            <<"from_ibtracs_netcdf",
                                              "calc_perturbed_trajectories">>)
                      /\ UNCHANGED <<cache, loads, succeeded, probe>>

----------------------------------------------------------------------------
(* POST /api/climada/wind-field *)

DefaultResolution == 10

WindFieldBodies ==
    { NoBody,
      EmptyMap,
      [track_id |-> "2012296N14283"],
      [track_id |-> "2012296N14283", resolution |-> 5] }

calculate_wind_field ==
    \E data \in WindFieldBodies :
        /\ response' =
             IF data = NoBody THEN ServerError("AttributeError")
             ELSE Success([status |-> "success",
                           message |-> "Wind field calculation requires significant computation",
                           track_id |-> Get(data, "track_id", None),
                           resolution |-> Get(data, "resolution", DefaultResolution)])
        /\ lastReq' = Handled("wind-field", data, <<>>, <<>>)
        /\ UNCHANGED <<cache, loads, succeeded, probe>>

----------------------------------------------------------------------------
(* POST /api/climada/impact *)

ImpactBodies ==
    { NoBody,
      EmptyMap,
      [country |-> "CUB", scenario |-> "rcp45"] }

\* The exposure LitPop returns, as the two numbers the handler reads of it.
Exposures == {[total_value |-> 0, n_assets |-> 0], [total_value |-> 900, n_assets |-> 3]}

calculate_impact ==
    \E data \in ImpactBodies, outcome \in {Raises} \cup {Returns(e) : e \in Exposures} :
        IF data = NoBody
        THEN /\ response' = ServerError("AttributeError")
             /\ lastReq' = Handled("impact", data, outcome, <<>>)
             /\ UNCHANGED <<cache, loads, succeeded, probe>>
        ELSE LET country == Get(data, "country", "USA")
                 scenario == Get(data, "scenario", "historical")
             IN  /\ response' =
                      IF ~outcome.ok THEN ServerError("LibraryError")
                      ELSE Success([country |-> country,
                                    scenario |-> scenario,
                                    exposure |-> [total_value |-> outcome.data.total_value,
                                                  n_assets |-> outcome.data.n_assets,
                                                  currency |-> "USD"],
                                    message |-> "Full impact calculation requires hazard data"])
                 /\ lastReq' = Handled("impact", data, outcome, <<"LitPop.from_countries">>)
                 /\ UNCHANGED <<cache, loads, succeeded, probe>>

----------------------------------------------------------------------------
(* GET /api/climada/return-periods *)

\* '25.7617,-80.1918'
DefaultLocation ==
    <<"2", "5", ".", "7", "6", "1", "7", ",", "-", "8", "0", ".", "1", "9", "1", "8">>

ReturnPeriodArgs ==
    { EmptyMap,
      [metric |-> "wind_speed"],
      [location |-> <<"1", ",", "2">>],
      [location |-> <<"1", ".", "5", "0", ",", "-", "2">>, metric |-> "surge_height"],
      [location |-> <<"1", ",", " ", "2", ".">>, metric |-> "rainfall"],
      [location |-> <<"1">>],
      [location |-> <<"1", ",", "2", ",", "1">>, metric |-> "surge_height"],
      [location |-> <<"x", ",", "1">>],
      [location |-> <<"1", ",">>],
      [location |-> <<>>, metric |-> "wind_speed"] }

\* The literal 'return_periods' object.
PlaceholderReturnPeriods ==
    ("10" :> 90) @@ ("25" :> 110) @@ ("50" :> 125) @@ ("100" :> 140) @@ ("250" :> 155)

UnitAlwaysMph(metric) == "mph"

\* 'mph' if metric == 'wind_speed' else 'ft'
Unit(metric) == IF metric = "wind_speed" THEN "mph" ELSE "ft"

get_return_periods ==
    \E args \in ReturnPeriodArgs :
        LET location == Get(args, "location", DefaultLocation)
            parts == Split(location, ",", <<>>, <<>>)
            floats == [k \in 1..Len(parts) |-> ParseFloat(parts[k])]
            metric == Get(args, "metric", "wind_speed")
        IN  /\ response' =
                 IF \E k \in 1..Len(parts) : floats[k] = <<>>
                 THEN ServerError("ValueError")      \* float() raised
                 ELSE IF Len(parts) # 2
                 THEN ServerError("ValueError")      \* lat, lon = ... cannot unpack
                 ELSE Success([location |-> [lat |-> Val(floats[1]), lon |-> Val(floats[2])],
                               metric |-> metric,
                               return_periods |-> PlaceholderReturnPeriods,
                               unit |-> Unit(metric)])
            /\ lastReq' = Handled("return-periods", args, <<>>, <<>>)
            /\ UNCHANGED <<cache, loads, succeeded, probe>>

----------------------------------------------------------------------------
(* The service. *)

NoProbe == [kind |-> "none"]

Init ==
    /\ cache = EmptyMap
    /\ response = Success([status |-> "started"])
    /\ lastReq = Handled("none", <<>>, <<>>, <<>>)
    /\ loads = EmptyMap
    /\ succeeded = EmptyMap
    /\ probe = NoProbe

Next ==
    \/ get_version
    \/ get_historical_tracks
    \/ generate_synthetic_tracks
    \/ calculate_wind_field
    \/ calculate_impact
    \/ get_return_periods

Spec == Init /\ [][Next]_vars

----------------------------------------------------------------------------
(* The service's state while a pure function is under test. *)

Idle ==
    /\ cache = EmptyMap
    /\ response = Success([status |-> "started"])
    /\ lastReq = Handled("none", <<>>, <<>>, <<>>)
    /\ loads = EmptyMap
    /\ succeeded = EmptyMap

\* All sequences over S of length at most n.
SeqsUpTo(S, n) == UNION {[1..m -> S] : m \in 0..n}

----------------------------------------------------------------------------
(* The category lookup on one point, over every wind speed up to MaxWind. *)

CategoryTracks ==
    {Track(1, attrs, <<Num(10)>>, <<Num(20)>>, <<w>>) :
        attrs \in {{}, {"max_sustained_wind"}},
        w \in {NaN} \cup {Num(v) : v \in 0..MaxWind}}

InitCategory ==
    /\ Idle
    /\ probe \in [kind : {"category"}, track : CategoryTracks, result : {<<>>}]

lookup_category ==
    /\ probe.kind = "category" /\ probe.result = <<>>
    /\ probe' = [probe EXCEPT !.result = <<PointCategory(probe.track, 1)>>]
    /\ UNCHANGED <<cache, response, lastReq, loads, succeeded>>

SpecCategory == InitCategory /\ [][lookup_category]_vars

----------------------------------------------------------------------------
(* The historical conversion, over single tracks of every shape up to       *)
(* MaxPoints points and over lists of up to MaxTracks sample tracks.        *)

PointKinds ==
    { [lat |-> Num(10), lon |-> Num(20), wind |-> Num(60)],
      [lat |-> Num(11), lon |-> Num(21), wind |-> Num(140)],
      [lat |-> NaN,     lon |-> Num(22), wind |-> Num(140)],
      [lat |-> Num(12), lon |-> NaN,     wind |-> Num(100)],
      [lat |-> Num(13), lon |-> Num(23), wind |-> NaN],
      [lat |-> NaN,     lon |-> NaN,     wind |-> NaN] }

TrackOfPoints(attrs, pts) ==
    Track(9, attrs, [i \in 1..Len(pts) |-> pts[i].lat], [i \in 1..Len(pts) |-> pts[i].lon],
          [i \in 1..Len(pts) |-> pts[i].wind])

ShapedTracks ==
    {TrackOfPoints(attrs, pts) :
        attrs \in {{}, {"max_sustained_wind"}}, pts \in SeqsUpTo(PointKinds, MaxPoints)}

ConversionInputs == {<<t>> : t \in ShapedTracks} \cup SeqsUpTo(SampleTracks, MaxTracks)

InitHistorical ==
    /\ Idle
    /\ probe \in [kind : {"historical"}, data : ConversionInputs, result : {<<>>}]

convert_historical ==
    /\ probe.kind = "historical" /\ probe.result = <<>>
    /\ probe' = [probe EXCEPT !.result =
                    <<HistoricalCollection(probe.data, NA, DefaultYearMin, DefaultYearMax)>>]
    /\ UNCHANGED <<cache, response, lastReq, loads, succeeded>>

SpecHistorical == InitHistorical /\ [][convert_historical]_vars

----------------------------------------------------------------------------
(* The synthetic conversion, over lists of up to MaxSynth tracks that       *)
(* repeat a pattern of one or two sample tracks.                            *)

Patterns == SeqsUpTo(SampleTracks, 2) \ {<<>>}

Repeat(pattern, n) == [i \in 1..n |-> pattern[((i - 1) % Len(pattern)) + 1]]

SyntheticInputs == {Repeat(pattern, n) : pattern \in Patterns, n \in 0..MaxSynth}

InitSynthetic ==
    /\ Idle
    /\ probe \in [kind : {"synthetic"}, scenario : Scenarios, data : SyntheticInputs,
                  result : {<<>>}]

convert_synthetic ==
    /\ probe.kind = "synthetic" /\ probe.result = <<>>
    /\ probe' = [probe EXCEPT !.result = <<SyntheticCollection(probe.data, probe.scenario)>>]
    /\ UNCHANGED <<cache, response, lastReq, loads, succeeded>>

SpecSynthetic == InitSynthetic /\ [][convert_synthetic]_vars

----------------------------------------------------------------------------
(* The cache key, over every basin text up to MaxBasinLen characters.       *)

BasinChars == {"A", "_", "1", "-"}

KeyYears == {0 - 1, 1, 11}

KeyTriples == SeqsUpTo(BasinChars, MaxBasinLen) \X KeyYears \X KeyYears

InitKey ==
    /\ Idle
    /\ probe \in [kind : {"key"}, triple : KeyTriples, result : {<<>>}]

make_key ==
    /\ probe.kind = "key" /\ probe.result = <<>>
    /\ probe' = [probe EXCEPT !.result =
                    <<CacheKey(probe.triple[1], probe.triple[2], probe.triple[3])>>]
    /\ UNCHANGED <<cache, response, lastReq, loads, succeeded>>

SpecKey == InitKey /\ [][make_key]_vars

----------------------------------------------------------------------------
(* What the conversions are expected to produce, stated without the loops. *)

Indices(n) == [i \in 1..n |-> i]

\* The indices of the points of a track with a latitude and a longitude.
ValidIndices(track) ==
    SelectSeq(Indices(Len(track.lat)),
              LAMBDA i : track.lat[i] # NaN /\ track.lon[i] # NaN)

ExpectedCoordinates(track) ==
    [k \in 1..Len(ValidIndices(track)) |->
        <<track.lon[ValidIndices(track)[k]], track.lat[ValidIndices(track)[k]]>>]

Kept(track) == Len(track.lat) >= 3 /\ Len(ValidIndices(track)) >= 3

\* The indices of the tracks of a list that become features.
KeptIndices(data, n) == SelectSeq(Indices(n), LAMBDA t : Kept(data[t]))

----------------------------------------------------------------------------
(* Claims checked under SpecCategory. *)

\* C2: the per-point lookup maps a non-NaN wind w to 5 if w >= 137, 4 if
\* 113 <= w < 137, 3 if 96 <= w < 113, 2 if 83 <= w < 96, 1 if 64 <= w < 83
\* and 0 if w < 64; it is total (a category in 0..5 for every wind) and
\* non-decreasing in w; a NaN wind or a track without max_sustained_wind
\* gives category 0.
C2_SaffirSimpsonLookup ==
    (probe.kind = "category" /\ probe.result # <<>>) =>
        LET track == probe.track
            wind == track.max_sustained_wind[1]
            cat == probe.result[1]
        IN  /\ cat \in 0..5
            /\ (~HasAttr(track, "max_sustained_wind") \/ wind = NaN) => cat = 0
            /\ (HasAttr(track, "max_sustained_wind") /\ wind # NaN) =>
                 LET w == wind[1]
                 IN  /\ (cat = 5) <=> (w >= 137)
                     /\ (cat = 4) <=> (113 <= w /\ w < 137)
                     /\ (cat = 3) <=> (96 <= w /\ w < 113)
                     /\ (cat = 2) <=> (83 <= w /\ w < 96)
                     /\ (cat = 1) <=> (64 <= w /\ w < 83)
                     /\ (cat = 0) <=> (w < 64)
                     /\ \A v \in 0..w :
                          PointCategory([track EXCEPT !.max_sustained_wind = <<Num(v)>>], 1)
                              <= cat

C2_Witness ==
    /\ probe.kind = "category" /\ probe.result = <<4>>
    /\ HasAttr(probe.track, "max_sustained_wind")
    /\ probe.track.max_sustained_wind = <<Num(113)>>

----------------------------------------------------------------------------
(* Claims checked under SpecHistorical. *)

\* C5: in a FeatureCollection of historical-tracks the features are, in the
\* library's track order, exactly the tracks with at least 3 raw points and at
\* least 3 points whose lat and lon are both non-NaN; each feature's
\* coordinates are exactly those points as [lon, lat] pairs in the track's
\* order, so at least 3 of them; and properties.count is the number of
\* features.
C5_HistoricalFeatures ==
    (probe.kind = "historical" /\ probe.result # <<>>) =>
        LET data == probe.data
            fc == probe.result[1]
            kept == KeptIndices(data, Len(data))
        IN  /\ Len(fc.features) = Len(kept)
            /\ fc.properties.count = Len(fc.features)
            /\ \A k \in 1..Len(fc.features) :
                 LET f == fc.features[k]
                     track == data[kept[k]]
                 IN  /\ f.properties.sid = track.sid
                     /\ f.geometry.coordinates = ExpectedCoordinates(track)
                     /\ Len(f.geometry.coordinates) >= 3
                     /\ \A c \in 1..Len(f.geometry.coordinates) :
                          /\ f.geometry.coordinates[c][1] # NaN
                          /\ f.geometry.coordinates[c][2] # NaN

\* A list of three tracks of which the middle one is dropped, and a kept track
\* that lost a point to a NaN.
C5_Witness ==
    /\ probe.kind = "historical" /\ probe.result # <<>>
    /\ Len(probe.data) = 3
    /\ Len(probe.result[1].features) = 2
    /\ ~Kept(probe.data[2])
    /\ Len(probe.data[1].lat) > Len(probe.result[1].features[1].geometry.coordinates)

\* C6: a feature's category is the maximum of the per-point categories over
\* exactly the points with valid lat and lon, a value in 0..5; max_wind is the
\* largest non-NaN wind over all points of the track; so the category is at
\* most, and can be below, the category of max_wind.
C6_CategoryOverValidPoints ==
    (probe.kind = "historical" /\ probe.result # <<>>) =>
        LET data == probe.data
            fc == probe.result[1]
            kept == KeptIndices(data, Len(data))
        IN  \A k \in 1..MinOf(Len(fc.features), Len(kept)) :
                LET f == fc.features[k]
                    track == data[kept[k]]
                    valid == ValidIndices(track)
                    winds == {track.max_sustained_wind[i][1] :
                                 i \in {j \in 1..Len(track.lat) :
                                           track.max_sustained_wind[j] # NaN}}
                IN  /\ f.properties.category \in 0..5
                    /\ f.properties.category =
                         MaxOf({PointCategory(track, valid[v]) : v \in 1..Len(valid)})
                    /\ HasAttr(track, "max_sustained_wind") =>
                         /\ winds = {} => f.properties.max_wind = NaN
                         /\ winds # {} =>
                              /\ f.properties.max_wind = Num(MaxOf(winds))
                              /\ f.properties.category <= SaffirSimpson(MaxOf(winds))
                    /\ ~HasAttr(track, "max_sustained_wind") =>
                         /\ f.properties.max_wind = Num(0)
                         /\ f.properties.category = 0

\* The strongest wind sits at a point without coordinates: category 0 beside
\* a max_wind of category 5.
C6_Witness ==
    /\ probe.kind = "historical" /\ probe.result # <<>>
    /\ Len(probe.result[1].features) = 1
    /\ probe.result[1].features[1].properties.max_wind = Num(140)
    /\ probe.result[1].features[1].properties.category = 0

----------------------------------------------------------------------------
(* Claims checked under SpecSynthetic. *)

SyntheticIndex(f) == f.properties.name[2]

\* C7: in a synthetic-tracks response the features are exactly the kept tracks
\* among the first min(50, total_tracks) of the library's list, in order, each
\* named 'Synthetic_i' by its 0-based index i in that list and carrying its at
\* least 3 valid coordinates; displayed_tracks is the number of features and
\* at most min(50, total_tracks); the indices in the names increase strictly.
C7_SyntheticSample ==
    (probe.kind = "synthetic" /\ probe.result # <<>>) =>
        LET data == probe.data
            fc == probe.result[1]
            n == MinOf(SampleCap, Len(data))
            kept == KeptIndices(data, n)
        IN  /\ fc.properties.total_tracks = Len(data)
            /\ fc.properties.displayed_tracks = Len(fc.features)
            /\ fc.properties.displayed_tracks <= n
            /\ Len(fc.features) = Len(kept)
            /\ \A k \in 1..MinOf(Len(fc.features), Len(kept)) :
                 LET f == fc.features[k]
                 IN  /\ f.properties.name = <<"Synthetic_", kept[k] - 1>>
                     /\ SyntheticIndex(f) \in 0..(n - 1)
                     /\ f.geometry.coordinates = ExpectedCoordinates(data[kept[k]])
                     /\ Len(f.geometry.coordinates) >= 3
                     /\ k > 1 => SyntheticIndex(fc.features[k - 1]) < SyntheticIndex(f)

\* More than 50 tracks, some of the first 50 skipped: the names are not
\* contiguous and the last one is below 50.
C7_Witness ==
    /\ probe.kind = "synthetic" /\ probe.result # <<>>
    /\ probe.result[1].properties.total_tracks > SampleCap
    /\ probe.result[1].properties.displayed_tracks = 25
    /\ SyntheticIndex(probe.result[1].features[1]) = 1
    /\ SyntheticIndex(probe.result[1].features[25]) = 49

\* C8: for rcp26, rcp45 and rcp85 the scenario's frequency and intensity
\* factors are applied to the synthetic tracks, so the tracks returned differ
\* from the ones returned for 'historical' on the same library output.
C8_FactorsApplied ==
    (/\ probe.kind = "synthetic" /\ probe.result # <<>>
     /\ probe.scenario \in {"rcp26", "rcp45", "rcp85"}
     /\ probe.result[1].features # <<>>) =>
        LET fc == probe.result[1]
            base == SyntheticCollection(probe.data, "historical")
        IN  \/ Len(fc.features) # Len(base.features)
            \/ \E k \in 1..Len(fc.features) :
                 fc.features[k].geometry # base.features[k].geometry

----------------------------------------------------------------------------
(* Claims checked under SpecKey. *)

\* C9: the cache key is injective over (basin text, integer year_min, integer
\* year_max): a different triple has a different key, also when the basin
\* holds underscores, digits or a minus sign.
C9_KeyInjective ==
    (probe.kind = "key" /\ probe.result # <<>>) =>
        \A other \in KeyTriples :
            CacheKey(other[1], other[2], other[3]) = probe.result[1]
                => other = probe.triple

\* A basin with an underscore and a digit whose key, were the fields merely
\* concatenated, would be the key of another triple.
C9_Witness ==
    /\ probe.kind = "key" /\ probe.result # <<>>
    /\ probe.triple[1] = <<"_", "1">>
    /\ \E other \in KeyTriples :
         /\ other # probe.triple
         /\ other[1] \o IntStr(other[2]) \o IntStr(other[3])
              = probe.triple[1] \o IntStr(probe.triple[2]) \o IntStr(probe.triple[3])

----------------------------------------------------------------------------
(* Claims checked under Spec. *)

ParsesOK(args) ==
    HistoricalParams(args).year_min # <<>> /\ HistoricalParams(args).year_max # <<>>

\* The parameter triple of a historical-tracks request whose years parse.
HistTriple(args) ==
    <<HistoricalParams(args).basin, HistoricalParams(args).year_min[1],
      HistoricalParams(args).year_max[1]>>

KeyOf(triple) == CacheKey(triple[1], triple[2], triple[3])

\* A step that handles a historical-tracks request whose triple has succeeded
\* before.
RepeatedHistorical ==
    /\ lastReq'.endpoint = "historical-tracks"
    /\ ParsesOK(lastReq'.input)
    /\ HistTriple(lastReq'.input) \in DOMAIN succeeded

\* C1: once a historical-tracks request with a parameter triple has succeeded,
\* every later request with that triple returns exactly the stored
\* FeatureCollection (the one first returned, for these very parameters), makes
\* no library call and leaves the cache unchanged; so the loader succeeds at
\* most once per triple.
C1_CachedResponse ==
    [][/\ \A t \in DOMAIN loads' : loads'[t] <= 1
       /\ RepeatedHistorical =>
            LET triple == HistTriple(lastReq'.input)
            IN  /\ response' = Success(succeeded[triple])
                /\ response'.body = cache[KeyOf(triple)]
                /\ response'.body.properties.basin = triple[1]
                /\ response'.body.properties.year_range = <<triple[2], triple[3]>>
                /\ lastReq'.libcalls = <<>>
                /\ cache' = cache
                /\ loads' = loads]_vars

\* A request answered from the cache although the library would now have
\* returned other tracks.
C1_Witness ==
    /\ lastReq.endpoint = "historical-tracks"
    /\ response.status = 200
    /\ lastReq.libcalls = <<>>
    /\ lastReq.outcome.ok
    /\ response.body.features #
         HistoricalCollection(lastReq.outcome.data, HistTriple(lastReq.input)[1],
                              HistTriple(lastReq.input)[2],
                              HistTriple(lastReq.input)[3]).features

\* A location that is exactly two comma-separated numbers.
TwoNumbers(location) ==
    LET commas == {k \in 1..Len(location) : location[k] = ","}
    IN  /\ Cardinality(commas) = 1
        /\ \A c \in commas :
             /\ ParseFloat(SubSeq(location, 1, c - 1)) # <<>>
             /\ ParseFloat(SubSeq(location, c + 1, Len(location))) # <<>>

\* Whether handling request req with cache c raises inside the handler body.
MustRaise(req, c) ==
    IF req.endpoint = "version" THEN req.outcome = "raises"
    ELSE IF req.endpoint = "historical-tracks"
    THEN \/ ~ParsesOK(req.input)
         \/ KeyOf(HistTriple(req.input)) \notin DOMAIN c /\ ~req.outcome.ok
    ELSE IF req.endpoint = "synthetic-tracks"
    THEN \/ req.input = NoBody
         \/ ~req.outcome.loader.ok
         \/ Get(req.input, "years", <<"number", 100>>)[1] # "number"
         \/ ~req.outcome.synth.ok
    ELSE IF req.endpoint = "wind-field" THEN req.input = NoBody
    ELSE IF req.endpoint = "impact" THEN req.input = NoBody \/ ~req.outcome.ok
    ELSE ~TwoNumbers(Get(req.input, "location", DefaultLocation))

\* C3: every handler ends a request with a success payload or with status 500
\* and a JSON object whose only key is 'error'; it is the 500 exactly when the
\* handler body raised (library failure, a year that is no integer, no JSON
\* body, a location that is not two comma-separated numbers); a failing
\* historical-tracks request leaves the cache as it was.
C3_CatchAnd500 ==
    [][/\ response'.status \in {200, 500}
       /\ response'.status = 500 => DOMAIN response'.body = {"error"}
       /\ response'.status = 200 => "error" \notin DOMAIN response'.body
       /\ MustRaise(lastReq', cache) <=> response'.status = 500
       /\ (lastReq'.endpoint = "historical-tracks" /\ response'.status = 500)
            => cache' = cache]_vars

\* The library fails on a historical-tracks request while the cache holds
\* entries.
C3_Witness ==
    /\ lastReq.endpoint = "historical-tracks"
    /\ response = ServerError("LibraryError")
    /\ lastReq.libcalls = <<"from_ibtracs_netcdf">>
    /\ Cardinality(DOMAIN cache) = 2

\* The two numbers of a location, as float() reads them.
LatLon(location) ==
    LET c == CHOOSE k \in 1..Len(location) : location[k] = ","
    IN  [lat |-> ParseFloat(SubSeq(location, 1, c - 1))[1],
         lon |-> ParseFloat(SubSeq(location, c + 1, Len(location)))[1]]

\* C4: a return-periods request whose location is two comma-separated numbers
\* gets the fixed map {10: 90, 25: 110, 50: 125, 100: 140, 250: 155} whatever
\* the location and metric, the parsed lat/lon and the metric echoed, and unit
\* 'mph' exactly when the metric is 'wind_speed', 'ft' otherwise; wind-field
\* answers a JSON object with status 'success' and echoes track_id and
\* resolution (default 10).
C4_Placeholders ==
    /\ lastReq.endpoint = "return-periods" =>
         LET location == Get(lastReq.input, "location", DefaultLocation)
             metric == Get(lastReq.input, "metric", "wind_speed")
         IN  TwoNumbers(location) =>
               /\ response.status = 200
               /\ DOMAIN response.body.return_periods = {"10", "25", "50", "100", "250"}
               /\ response.body.return_periods["10"] = 90
               /\ response.body.return_periods["25"] = 110
               /\ response.body.return_periods["50"] = 125
               /\ response.body.return_periods["100"] = 140
               /\ response.body.return_periods["250"] = 155
               /\ response.body.location = LatLon(location)
               /\ response.body.metric = metric
               /\ response.body.unit = "mph" <=> metric = "wind_speed"
               /\ response.body.unit = "ft" <=> metric # "wind_speed"
    /\ (lastReq.endpoint = "wind-field" /\ lastReq.input # NoBody) =>
         /\ response.status = 200
         /\ DOMAIN response.body = {"status", "message", "track_id", "resolution"}
         /\ response.body.status = "success"
         /\ response.body.track_id = Get(lastReq.input, "track_id", None)
         /\ response.body.resolution = Get(lastReq.input, "resolution", 10)

\* A metric that is neither of the documented two, at ' 2.' north of 1.
C4_Witness ==
    /\ lastReq.endpoint = "return-periods"
    /\ response.status = 200
    /\ response.body.metric = "rainfall"
    /\ response.body.unit = "ft"
    /\ response.body.location = [lat |-> <<1, 1>>, lon |-> <<2, 1>>]

\* What C10 says of every step, but for the library calls.
CacheOnlyGrows ==
    /\ \A k \in DOMAIN cache : k \in DOMAIN cache' /\ cache'[k] = cache[k]
    /\ DOMAIN cache' = {KeyOf(t) : t \in DOMAIN succeeded'}
    /\ lastReq'.endpoint # "historical-tracks" => cache' = cache

\* C10 (as amended): the cache only grows: a stored entry is never removed or
\* overwritten, the keys are exactly those of the parameter triples of the
\* successful historical-tracks requests, no other handler changes the cache,
\* and synthetic-tracks and impact call the library on every request that
\* carries a JSON object.
C10_CacheFrame ==
    [][/\ CacheOnlyGrows
       /\ (lastReq'.endpoint \in {"synthetic-tracks", "impact"} /\ lastReq'.input # NoBody)
            => lastReq'.libcalls # <<>>]_vars

\* C10 as stated: synthetic-tracks and impact call the library on every
\* request.
C10_AsStated ==
    [][/\ CacheOnlyGrows
       /\ lastReq'.endpoint \in {"synthetic-tracks", "impact"}
            => lastReq'.libcalls # <<>>]_vars

\* Two entries in the cache and a synthetic-tracks request that went to the
\* library past them.
C10_Witness ==
    /\ Cardinality(DOMAIN cache) >= 2
    /\ lastReq.endpoint = "synthetic-tracks"
    /\ lastReq.libcalls = <<"from_ibtracs_netcdf", "calc_perturbed_trajectories">>
    /\ response.status = 200

=============================================================================
